---- MODULE Spec2Model ----
(***************************************************************************)
(* Model of the expotools prebuild pipeline:                               *)
(*   - XcodeGen helpers (mergeXcodeConfigs, podNameToBundleId,             *)
(*     createSpecFromPodspecAsync, generateXcodeProjectAsync),             *)
(*   - the cleanPrebuilds and prebuildPackages publish tasks.              *)
(* Strings are sequences of one-character strings so that the regular      *)
(* expressions of the source are computed on characters.                   *)
(***************************************************************************)
EXTENDS Integers, Sequences, FiniteSets, TLC

VARIABLES
  (* mergeXcodeConfigs(...configs) *)
  configs,        \* the rest parameter: a sequence of XcodeConfig objects
  mergePc,        \* index of the next config of the outer loop; 0 = returned
  result,         \* the local `result` object
  (* podNameToBundleId(podName) *)
  podName,        \* the argument
  bundleStage,    \* number of .replace() calls already applied (0..4)
  bundleStr,      \* the string the replace chain has produced so far
  (* createSpecFromPodspecAsync(podspec, dependencyResolver) *)
  podspec,            \* the argument (the fields the target is built from)
  csPc,               \* "idle", "start", "awaiting", "returned", "failed"
  dependenciesNames,  \* the local `dependenciesNames`
  resolverCalls,      \* names dependencyResolver was called with, in call order
  pending,            \* indices whose resolver promise has not settled yet
  resolved,           \* what the resolver answered: name -> descriptor or null
  completionOrder,    \* indices in the order their promises settled
  results,            \* the array mapAsync fills: index -> value
  dependencies,       \* the local `dependencies`
  targetDependencies, \* targets[name].dependencies of the returned spec
  targetSettings,     \* targets[name].settings.base of the returned spec
  (* generateXcodeProjectAsync(dir, spec) *)
  genDir,         \* the argument `dir`
  genSpecName,    \* spec.name
  genPc,          \* position of the function, see the Gen* actions
  fs,             \* the file system: path -> "absent", "stale", "partial", "complete"
  genProc,        \* the xcodegen subprocess: "none", "running", "exited"
  genExitCode,    \* its exit code once exited, NoExitCode before
  genError,       \* the await that threw: "none", "write", "spawn", "remove"
  genReturn,      \* the returned path, NoPath before the return
  (* the cleanPrebuilds and prebuildPackages tasks *)
  parcels,        \* the argument `parcels`
  prebuildable,   \* the packages canPrebuildPackage accepts
  taskPc,         \* position of the task's function
  logCalls,       \* the calls made on `logger`, in order
  cleanCalls,     \* the arguments of the cleanFrameworksAsync calls, in order
  pbIdx,          \* index of the parcel the for-of loop is at
  inFlight,       \* packages whose prebuildPackageAsync promise is pending
  started,        \* packages prebuildPackageAsync was called with, in order
  completed,      \* packages whose prebuild fulfilled, in order
  failedPkg       \* the package whose prebuild rejected, NoPackage if none

mergeVars  == <<configs, mergePc, result>>
bundleVars == <<podName, bundleStage, bundleStr>>
createVars == <<podspec, csPc, dependenciesNames, resolverCalls, pending, resolved,
                completionOrder, results, dependencies, targetDependencies,
                targetSettings>>
genVars == <<genDir, genSpecName, genPc, fs, genProc, genExitCode, genError, genReturn>>
taskVars == <<parcels, prebuildable, taskPc, logCalls, cleanCalls, pbIdx, inFlight,
              started, completed, failedPkg>>
vars == <<configs, mergePc, result, podName, bundleStage, bundleStr,
          podspec, csPc, dependenciesNames, resolverCalls, pending, resolved,
          completionOrder, results, dependencies, targetDependencies,
          targetSettings,
          genDir, genSpecName, genPc, fs, genProc, genExitCode, genError, genReturn,
          parcels, prebuildable, taskPc, logCalls, cleanCalls, pbIdx, inFlight,
          started, completed, failedPkg>>

-----------------------------------------------------------------------------
(* Bounds of the model *)
MaxConfigs == 2      \* number of configs passed to mergeXcodeConfigs
MaxNameLen == 4      \* length of the enumerated pod names
MaxDeps == 2         \* number of dependencies a podspec declares
MaxParcels == 3      \* number of parcels handed to a task

-----------------------------------------------------------------------------
(* JavaScript values and strings *)

Str(s) == [type |-> "string", val |-> s]
Num(digits) == [type |-> "number", val |-> digits]
Undefined == [type |-> "undefined", val |-> <<>>]

\* JS truthiness of the values used here ('' and 0 and undefined are falsy).
Truthy(v) ==
  CASE v.type = "string" -> v.val # <<>>
    [] v.type = "number" -> v.val # <<"0">>
    [] OTHER -> FALSE

\* String.prototype.includes
Includes(s, t) ==
  \E i \in 1..(Len(s) - Len(t) + 1) : SubSeq(s, i, i + Len(t) - 1) = t

\* Number of (possibly overlapping; the tokens used cannot overlap) occurrences.
CountOccurrences(s, t) ==
  Cardinality({i \in 1..(Len(s) - Len(t) + 1) : SubSeq(s, i, i + Len(t) - 1) = t})

IsWhitespace(c) == c \in {" ", "\t", "\n"}

INHERITED == <<"$", "(", "i", "n", "h", "e", "r", "i", "t", "e", "d", ")">>
PAREN_INHERITED == <<"(", "i", "n", "h", "e", "r", "i", "t", "e", "d", ")">>

\* obj[key] of a JS object: undefined when the key is absent.
Get(obj, key) == IF key \in DOMAIN obj THEN obj[key] ELSE Undefined

\* obj[key] = value
Put(obj, key, value) ==
  [k \in DOMAIN obj \cup {key} |-> IF k = key THEN value ELSE obj[k]]

-----------------------------------------------------------------------------
(* mergeXcodeConfigValue *)

\* The regular expression literal /\\s*$\(inherited\)\s*/g read as JavaScript
\* reads it: a literal backslash, zero or more letters `s`, the end-of-input
\* assertion `$` (there is no `m` flag), the literal text "(inherited)" and
\* trailing whitespace. The value is the length of the match that starts at
\* position i of s, or -1 when there is none.
RECURSIVE WhitespaceRun(_, _)
WhitespaceRun(s, i) ==
  IF i <= Len(s) /\ IsWhitespace(s[i]) THEN 1 + WhitespaceRun(s, i + 1) ELSE 0

InheritedRegexMatchLen(s, i) ==
  LET n == Len(s)
      \* positions k reached after `\\` and `s*` at which `$` holds and
      \* "(inherited)" follows
      ends == {k \in (i + 1)..(n + 1) :
                 /\ \A j \in (i + 1)..(k - 1) : s[j] = "s"
                 /\ k = n + 1
                 /\ k + Len(PAREN_INHERITED) - 1 <= n
                 /\ SubSeq(s, k, k + Len(PAREN_INHERITED) - 1) = PAREN_INHERITED}
  IN IF i <= n /\ s[i] = "\\" /\ ends # {}
       THEN LET k == CHOOSE e \in ends : \A f \in ends : f <= e
                after == k + Len(PAREN_INHERITED)
            IN (after - i) + WhitespaceRun(s, after)
       ELSE -1

\* .replace(/\\s*$\(inherited\)\s*/g, ' ') scanning from position i
RECURSIVE ReplaceInheritedFrom(_, _)
ReplaceInheritedFrom(s, i) ==
  IF i > Len(s) THEN <<>>
  ELSE LET m == InheritedRegexMatchLen(s, i)
       IN IF m > 0 THEN <<" ">> \o ReplaceInheritedFrom(s, i + m)
                   ELSE <<s[i]>> \o ReplaceInheritedFrom(s, i + 1)

ReplaceInherited(s) == ReplaceInheritedFrom(s, 1)

mergeXcodeConfigValue_KeepsPrev(prevValue, nextValue) ==
  IF Truthy(prevValue) THEN prevValue ELSE nextValue
mergeXcodeConfigValue(prevValue, nextValue) ==
  IF Truthy(prevValue) /\ prevValue.type = "string" /\ Includes(prevValue.val, INHERITED)
    THEN Str(INHERITED \o <<" ">> \o ReplaceInherited(prevValue.val \o <<" ">> \o nextValue.val))
    ELSE nextValue

\* One iteration of the outer loop: every key of `config` is merged into acc.
\* Keys are distinct, so the order of the inner `for ... in` loop is immaterial.
MergeOneConfig(acc, config) ==
  [k \in DOMAIN acc \cup DOMAIN config |->
     IF k \in DOMAIN config THEN mergeXcodeConfigValue(Get(acc, k), config[k])
                            ELSE acc[k]]

EmptyObject == [k \in {} |-> Undefined]

RECURSIVE mergeXcodeConfigs(_)
mergeXcodeConfigs(cs) ==
  IF cs = <<>> THEN EmptyObject
  ELSE MergeOneConfig(mergeXcodeConfigs(SubSeq(cs, 1, Len(cs) - 1)), cs[Len(cs)])

-----------------------------------------------------------------------------
(* Inputs of the merge specification *)

ConfigKeys == {"A", "B"}

S_x == <<"x">>
S_y == <<"y">>
S_inh_x == INHERITED \o <<" ", "x">>
S_inh_x_y == INHERITED \o <<" ", "x", " ", "y">>

ConfigValues == {Str(<<>>), Str(S_x), Str(S_y), Str(S_inh_x), Num(<<"1">>)}

XcodeConfigs ==
  UNION {[ks -> ConfigValues] : ks \in SUBSET ConfigKeys}

ConfigLists == UNION {[1..n -> XcodeConfigs] : n \in 0..MaxConfigs}

\* The state at the call of mergeXcodeConfigs (run), or with no call made.
MergeInit(run) ==
  /\ configs \in (IF run THEN ConfigLists ELSE {<<>>})
  /\ mergePc = (IF run THEN 1 ELSE 0)
  /\ result = EmptyObject

\* for (const config of configs) { for (const key in config) ... }
MergeLoop ==
  /\ mergePc >= 1
  /\ mergePc <= Len(configs)
  /\ result' = MergeOneConfig(result, configs[mergePc])
  /\ mergePc' = mergePc + 1
  /\ UNCHANGED configs

\* return result
MergeReturn ==
  /\ mergePc = Len(configs) + 1
  /\ mergePc' = 0
  /\ UNCHANGED <<configs, result>>


-----------------------------------------------------------------------------
(* podNameToBundleId *)

UPPERCASE == <<"A", "B", "C", "D", "E", "F", "G", "H", "I", "J", "K", "L", "M",
               "N", "O", "P", "Q", "R", "S", "T", "U", "V", "W", "X", "Y", "Z">>
LOWERCASE == <<"a", "b", "c", "d", "e", "f", "g", "h", "i", "j", "k", "l", "m",
               "n", "o", "p", "q", "r", "s", "t", "u", "v", "w", "x", "y", "z">>
DIGITS == <<"0", "1", "2", "3", "4", "5", "6", "7", "8", "9">>

Range(f) == {f[i] : i \in DOMAIN f}

IsUpper(c) == c \in Range(UPPERCASE)                    \* [A-Z]
IsDigit(c) == c \in Range(DIGITS)                       \* \d
IsWordChar(c) ==                                        \* \w
  c \in Range(UPPERCASE) \cup Range(LOWERCASE) \cup Range(DIGITS) \cup {"_"}

\* String.prototype.toLowerCase on one character
ToLowerChar(c) ==
  IF IsUpper(c) THEN LOWERCASE[CHOOSE i \in DOMAIN UPPERCASE : UPPERCASE[i] = c] ELSE c

ToLowerCase(s) == [i \in DOMAIN s |-> ToLowerChar(s[i])]

StartsWith(s, t) == Len(s) >= Len(t) /\ SubSeq(s, 1, Len(t)) = t

Tail_From(s, i) == SubSeq(s, i, Len(s))

S_unimodules == <<"u", "n", "i", "m", "o", "d", "u", "l", "e", "s">>
S_expo == <<"e", "x", "p", "o">>

\* .replace(/^UM/, 'unimodules')
ReplaceLeadingUM(s) ==
  IF StartsWith(s, <<"U", "M">>) THEN S_unimodules \o Tail_From(s, 3) ELSE s

\* .replace(/^EX/, 'expo')
ReplaceLeadingEX(s) ==
  IF StartsWith(s, <<"E", "X">>) THEN S_expo \o Tail_From(s, 3) ELSE s

\* One character of the group (\_|[^\w\d\.])
IsSeparatorChar_NoUnderscore(c) == ~(IsWordChar(c) \/ IsDigit(c) \/ c = ".")
IsSeparatorChar(c) == c = "_" \/ ~(IsWordChar(c) \/ IsDigit(c) \/ c = ".")

\* Length of the longest run of characters satisfying the class from i on.
RECURSIVE SeparatorRun(_, _)
SeparatorRun(s, i) ==
  IF i <= Len(s) /\ IsSeparatorChar(s[i]) THEN 1 + SeparatorRun(s, i + 1) ELSE 0

RECURSIVE DotRun(_, _)
DotRun(s, i) == IF i <= Len(s) /\ s[i] = "." THEN 1 + DotRun(s, i + 1) ELSE 0

RECURSIVE UpperRun(_, _)
UpperRun(s, i) == IF i <= Len(s) /\ IsUpper(s[i]) THEN 1 + UpperRun(s, i + 1) ELSE 0

\* .replace(/(\_|[^\w\d\.])+/g, '.') scanning from position i
RECURSIVE ReplaceSeparatorsFrom(_, _)
ReplaceSeparatorsFrom(s, i) ==
  IF i > Len(s) THEN <<>>
  ELSE LET m == SeparatorRun(s, i)
       IN IF m > 0 THEN <<".">> \o ReplaceSeparatorsFrom(s, i + m)
                   ELSE <<s[i]>> \o ReplaceSeparatorsFrom(s, i + 1)

ReplaceSeparators(s) == ReplaceSeparatorsFrom(s, 1)

\* .replace(/\.*([A-Z]+)/g, (_, p1) => `.${p1.toLowerCase()}`) from position i
RECURSIVE ReplaceUppercaseFrom(_, _)
ReplaceUppercaseFrom(s, i) ==
  IF i > Len(s) THEN <<>>
  ELSE LET dots == DotRun(s, i)
           ups  == UpperRun(s, i + dots)
       IN IF ups > 0
            THEN <<".">> \o ToLowerCase(SubSeq(s, i + dots, i + dots + ups - 1))
                         \o ReplaceUppercaseFrom(s, i + dots + ups)
            ELSE <<s[i]>> \o ReplaceUppercaseFrom(s, i + 1)

ReplaceUppercase(s) == ReplaceUppercaseFrom(s, 1)

podNameToBundleId(name) ==
  ReplaceUppercase(ReplaceSeparators(ReplaceLeadingEX(ReplaceLeadingUM(name))))

(* Inputs: the two names of the documentation and every name over a small  *)
(* alphabet that has a character of each class the expressions tell apart. *)
S_EXFoo == <<"E", "X", "F", "o", "o">>
S_UMBar_Baz == <<"U", "M", "B", "a", "r", "_", "B", "a", "z">>
S_expo_foo == <<"e", "x", "p", "o", ".", "f", "o", "o">>
S_unimodules_bar_baz == S_unimodules \o <<".", "b", "a", "r", ".", "b", "a", "z">>

NameChars == {"E", "X", "U", "M", "a", "1", "_", "-", "."}

\* A pod name is not empty and begins with a letter or a digit.
PodNames ==
  {n \in UNION {[1..len -> NameChars] : len \in 1..MaxNameLen} :
     IsWordChar(n[1]) /\ n[1] # "_"}
    \cup {S_EXFoo, S_UMBar_Baz}

\* The state at the call of podNameToBundleId (run), or with no call made.
BundleInit(run) ==
  /\ podName \in (IF run THEN PodNames ELSE {<<>>})
  /\ bundleStage = 0
  /\ bundleStr = podName

BundleReplaceUM ==
  /\ bundleStage = 0 /\ podName # <<>>
  /\ bundleStr' = ReplaceLeadingUM(bundleStr)
  /\ bundleStage' = 1
  /\ UNCHANGED podName

BundleReplaceEX ==
  /\ bundleStage = 1
  /\ bundleStr' = ReplaceLeadingEX(bundleStr)
  /\ bundleStage' = 2
  /\ UNCHANGED podName

BundleReplaceSeparators ==
  /\ bundleStage = 2
  /\ bundleStr' = ReplaceSeparators(bundleStr)
  /\ bundleStage' = 3
  /\ UNCHANGED podName

BundleReplaceUppercase ==
  /\ bundleStage = 3
  /\ bundleStr' = ReplaceUppercase(bundleStr)
  /\ bundleStage' = 4
  /\ UNCHANGED podName

-----------------------------------------------------------------------------
(* createSpecFromPodspecAsync *)

Arr(items) == [type |-> "array", val |-> items]
Obj(o) == [type |-> "object", val |-> o]

\* arrayize(value)
arrayize_DropsScalar(value) ==
  IF value.type = "array" THEN value.val ELSE <<>>
arrayize(value) ==
  IF value.type = "array" THEN value.val
  ELSE IF value.type \notin {"null", "undefined"} THEN <<value>> ELSE <<>>

\* value ?? fallback
NullishOr(value, fallback) ==
  IF value.type \in {"null", "undefined"} THEN fallback ELSE value.val

\* Boolean(v) for the values a resolver promise fulfils with
IsTruthyDependency(d) == d.kind # "null"

\* .filter(Boolean) of line 153
FilterBoolean_KeepsAll(seq) == seq
RECURSIVE FilterBoolean(_)
FilterBoolean(seq) ==
  IF seq = <<>> THEN <<>>
  ELSE (IF IsTruthyDependency(Head(seq)) THEN <<Head(seq)>> ELSE <<>>)
         \o FilterBoolean(Tail(seq))

\* podspec.dependencies ? Object.keys(podspec.dependencies) : []
DependenciesNamesOf(spec) ==
  IF spec.dependencies.type = "object" THEN spec.dependencies.val ELSE <<>>

\* mapAsync(items, fn): fn is called for every item at once, ...
MapAsyncPending(items) == DOMAIN items
MapAsyncCalls(items) == items
\* ... and the promise fulfils, once every call has, with the values in the
\* order of the items.
MapAsyncValue(items, settled) == [i \in DOMAIN items |-> settled[i]]

S_dot_framework == <<".", "f", "r", "a", "m", "e", "w", "o", "r", "k">>
S_MACH_O_TYPE == "MACH_O_TYPE"
S_staticlib == <<"s", "t", "a", "t", "i", "c", "l", "i", "b">>

\* { sdk: `${framework}.framework` }
SdkDependency(framework) == [kind |-> "sdk", name |-> framework.val \o S_dot_framework]

\* dependencies: [...arrayize(podspec.frameworks).map(...), ...dependencies]
TargetDependencies(spec, deps) ==
  LET fw == arrayize(spec.frameworks)
  IN [i \in DOMAIN fw |-> SdkDependency(fw[i])] \o deps

\* settings.base: mergeXcodeConfigs(podspec.pod_target_xcconfig ?? {}, {MACH_O_TYPE: 'staticlib'})
TargetSettings_OverridesFirst(spec) ==
  mergeXcodeConfigs(<<[k \in {S_MACH_O_TYPE} |-> Str(S_staticlib)],
                      NullishOr(spec.pod_target_xcconfig, EmptyObject)>>)
TargetSettings(spec) ==
  mergeXcodeConfigs(<<NullishOr(spec.pod_target_xcconfig, EmptyObject),
                      [k \in {S_MACH_O_TYPE} |-> Str(S_staticlib)]>>)

(* Inputs *)
S_CoreLocation == <<"C", "o", "r", "e", "L", "o", "c", "a", "t", "i", "o", "n">>
S_UIKit == <<"U", "I", "K", "i", "t">>
S_dylib == <<"d", "y", "l", "i", "b">>

DependencyNamePool == {"Y", "Z", "W"}

FrameworksValues ==
  {Undefined, Str(S_CoreLocation), Arr(<<>>), Arr(<<Str(S_CoreLocation)>>),
   Arr(<<Str(S_UIKit), Str(S_CoreLocation)>>)}

\* Object.keys of the dependencies object: distinct names, declaration order
DependenciesValues ==
  {Undefined} \cup
  {Obj(ks) : ks \in {q \in UNION {[1..n -> DependencyNamePool] : n \in 0..MaxDeps} :
                       \A i, j \in DOMAIN q : i # j => q[i] # q[j]}}

XcconfigValues ==
  {Undefined, Obj(EmptyObject),
   Obj([k \in {"OTHER_LDFLAGS"} |-> Str(S_inh_x)]),
   Obj([k \in {S_MACH_O_TYPE} |-> Str(S_dylib)]),
   Obj([k \in {S_MACH_O_TYPE, "OTHER_LDFLAGS"} |->
          IF k = S_MACH_O_TYPE THEN Str(INHERITED \o <<" ">> \o S_dylib) ELSE Str(S_x)])}

Podspecs ==
  [frameworks : FrameworksValues, dependencies : DependenciesValues,
   pod_target_xcconfig : XcconfigValues]

\* What dependencyResolver may fulfil its promise with for a name.
ResolverAnswers(name) ==
  {[kind |-> "framework", name |-> name], [kind |-> "target", name |-> name],
   [kind |-> "null", name |-> name]}

NoFunction == [i \in {} |-> 0]

\* The state at the call of createSpecFromPodspecAsync (run), or with no
\* call made.
CreateInit(run) ==
  /\ podspec \in (IF run THEN Podspecs
                         ELSE {[frameworks |-> Undefined, dependencies |-> Undefined,
                                pod_target_xcconfig |-> Undefined]})
  /\ csPc = (IF run THEN "start" ELSE "idle")
  /\ dependenciesNames = <<>> /\ resolverCalls = <<>> /\ pending = {}
  /\ resolved = NoFunction /\ completionOrder = <<>> /\ results = NoFunction
  /\ dependencies = <<>> /\ targetDependencies = <<>> /\ targetSettings = EmptyObject

\* Lines 143-152: up to the await; mapAsync has called the resolver for
\* every name.
CreateStart ==
  /\ csPc = "start"
  /\ dependenciesNames' = DependenciesNamesOf(podspec)
  /\ resolverCalls' = MapAsyncCalls(DependenciesNamesOf(podspec))
  /\ pending' = MapAsyncPending(DependenciesNamesOf(podspec))
  /\ csPc' = "awaiting"
  /\ UNCHANGED <<podspec, resolved, completionOrder, results, dependencies,
                 targetDependencies, targetSettings>>

\* One resolver promise fulfils, with a descriptor or with null.
ResolverFulfils ==
  /\ csPc = "awaiting"
  /\ \E i \in pending : \E d \in ResolverAnswers(dependenciesNames[i]) :
       /\ pending' = pending \ {i}
       /\ resolved' = Put(resolved, dependenciesNames[i], d)
       /\ results' = Put(results, i, d)
       /\ completionOrder' = Append(completionOrder, i)
  /\ UNCHANGED <<podspec, csPc, dependenciesNames, resolverCalls, dependencies,
                 targetDependencies, targetSettings>>

\* One resolver promise rejects: the await throws and nothing is returned.
ResolverRejects ==
  /\ csPc = "awaiting"
  /\ \E i \in pending :
       /\ pending' = pending \ {i}
       /\ completionOrder' = Append(completionOrder, i)
  /\ csPc' = "failed"
  /\ UNCHANGED <<podspec, dependenciesNames, resolverCalls, resolved, results,
                 dependencies, targetDependencies, targetSettings>>

\* Lines 153-220: the await returns; the spec is assembled and returned.
CreateReturn ==
  /\ csPc = "awaiting"
  /\ pending = {}
  /\ LET deps == FilterBoolean(MapAsyncValue(dependenciesNames, results))
     IN /\ dependencies' = deps
        /\ targetDependencies' = TargetDependencies(podspec, deps)
  /\ targetSettings' = TargetSettings(podspec)
  /\ csPc' = "returned"
  /\ UNCHANGED <<podspec, dependenciesNames, resolverCalls, pending, resolved,
                 completionOrder, results>>

-----------------------------------------------------------------------------
(* generateXcodeProjectAsync *)

\* path.join(dir, `${spec.name}.spec.json`)
SpecPath(dir, name) == [dir |-> dir, base |-> name, ext |-> ".spec.json"]
\* path.join(dir, `${spec.name}.xcodeproj`)
XcodeprojPath(dir, name) == [dir |-> dir, base |-> name, ext |-> ".xcodeproj"]

NoPath == [dir |-> "", base |-> "", ext |-> ""]
NoExitCode == -1

Dirs == {"ios/EXFoo", "ios/UMBar"}
SpecNames == {"EXFoo", "UMBar"}
Paths == {SpecPath(d, n) : d \in Dirs, n \in SpecNames}
           \cup {XcodeprojPath(d, n) : d \in Dirs, n \in SpecNames}
ExitCodes == {0, 1, 2}

\* spawnAsync rejects when the subprocess exits with a non-zero code.
SpawnAsyncRejects(code) == code # 0

\* The state at the call of generateXcodeProjectAsync (run), or with no call
\* made. Files of an earlier run may be present.
GenInit(run) ==
  /\ genDir \in (IF run THEN Dirs ELSE {""})
  /\ genSpecName \in (IF run THEN SpecNames ELSE {""})
  /\ genPc = (IF run THEN "start" ELSE "idle")
  /\ fs \in (IF run THEN [Paths -> {"absent", "stale"}] ELSE {[p \in Paths |-> "absent"]})
  /\ genProc = "none" /\ genExitCode = NoExitCode
  /\ genError = "none" /\ genReturn = NoPath

\* Lines 117-122: fs.outputJSON is called; the file is being written.
GenWriteSpec ==
  /\ genPc = "start"
  /\ fs' = [fs EXCEPT ![SpecPath(genDir, genSpecName)] = "partial"]
  /\ genPc' = "writing"
  /\ UNCHANGED <<genDir, genSpecName, genProc, genExitCode, genError, genReturn>>

\* The write finishes.
GenWriteCompletes ==
  /\ genPc = "writing"
  /\ fs' = [fs EXCEPT ![SpecPath(genDir, genSpecName)] = "complete"]
  /\ genPc' = "written"
  /\ UNCHANGED <<genDir, genSpecName, genProc, genExitCode, genError, genReturn>>

\* The write fails: the await of line 120 throws.
GenWriteFails ==
  /\ genPc = "writing"
  /\ genPc' = "failed"
  /\ genError' = "write"
  /\ UNCHANGED <<genDir, genSpecName, fs, genProc, genExitCode, genReturn>>

\* Lines 125-128: the await of line 120 returned; xcodegen is spawned.
GenSpawn ==
  /\ genPc = "written"
  /\ genProc' = "running"
  /\ genPc' = "spawned"
  /\ UNCHANGED <<genDir, genSpecName, fs, genExitCode, genError, genReturn>>

\* The subprocess exits; it may or may not have produced the project.
GenProcessExits ==
  /\ genPc = "spawned" /\ genProc = "running"
  /\ \E code \in ExitCodes, produced \in BOOLEAN :
       /\ genExitCode' = code
       /\ fs' = IF produced
                  THEN [fs EXCEPT ![XcodeprojPath(genDir, genSpecName)] = "complete"]
                  ELSE fs
  /\ genProc' = "exited"
  /\ genPc' = "exited"
  /\ UNCHANGED <<genDir, genSpecName, genError, genReturn>>

\* Line 131: the await of line 125 returned; fs.remove is called.
GenSpawnResolved_SkipsRemove ==
  /\ genPc = "exited" /\ ~SpawnAsyncRejects(genExitCode)
  /\ genPc' = "removed"
  /\ UNCHANGED <<genDir, genSpecName, fs, genProc, genExitCode, genError, genReturn>>
GenSpawnResolved ==
  /\ genPc = "exited" /\ ~SpawnAsyncRejects(genExitCode)
  /\ genPc' = "removing"
  /\ UNCHANGED <<genDir, genSpecName, fs, genProc, genExitCode, genError, genReturn>>

\* The await of line 125 threw: nothing catches it, lines 131-133 do not run.
GenSpawnRejected_RemovesInFinally ==
  /\ genPc = "exited" /\ SpawnAsyncRejects(genExitCode)
  /\ fs' = [fs EXCEPT ![SpecPath(genDir, genSpecName)] = "absent"]
  /\ genPc' = "failed"
  /\ genError' = "spawn"
  /\ UNCHANGED <<genDir, genSpecName, genProc, genExitCode, genReturn>>
GenSpawnRejected ==
  /\ genPc = "exited" /\ SpawnAsyncRejects(genExitCode)
  /\ genPc' = "failed"
  /\ genError' = "spawn"
  /\ UNCHANGED <<genDir, genSpecName, fs, genProc, genExitCode, genReturn>>

\* The removal finishes.
GenRemoveCompletes ==
  /\ genPc = "removing"
  /\ fs' = [fs EXCEPT ![SpecPath(genDir, genSpecName)] = "absent"]
  /\ genPc' = "removed"
  /\ UNCHANGED <<genDir, genSpecName, genProc, genExitCode, genError, genReturn>>

\* The removal fails: the await of line 131 throws.
GenRemoveFails ==
  /\ genPc = "removing"
  /\ genPc' = "failed"
  /\ genError' = "remove"
  /\ UNCHANGED <<genDir, genSpecName, fs, genProc, genExitCode, genReturn>>

\* Line 133
GenReturn ==
  /\ genPc = "removed"
  /\ genReturn' = XcodeprojPath(genDir, genSpecName)
  /\ genPc' = "returned"
  /\ UNCHANGED <<genDir, genSpecName, fs, genProc, genExitCode, genError>>

-----------------------------------------------------------------------------
(* The publish tasks cleanPrebuilds and prebuildPackages *)

Packages == {"expo-camera", "expo-gl", "expo-av", "expo-sensors"}
NoPackage == ""

\* One parcel per package, as the publish pipeline builds them.
ParcelLists ==
  {[i \in DOMAIN q |-> [pkg |-> q[i]]] :
     q \in {r \in UNION {[1..n -> Packages] : n \in 0..MaxParcels} :
              \A i, j \in DOMAIN r : i # j => r[i] # r[j]}}

LogCall == [method |-> "log", args |-> <<>>]
InfoCleaning == [method |-> "info", args |-> <<"Cleaning prebuilt resources %s">>]
InfoPrebuilding(pkg) == [method |-> "info", args |-> <<"Prebuilding %s", pkg>>]

\* parcels.map(({ pkg }) => pkg).filter(canPrebuildPackage)
PackagesToClean_NoFilter(ps, can) == [i \in DOMAIN ps |-> ps[i].pkg]
RECURSIVE PackagesToClean(_, _)
PackagesToClean(ps, can) ==
  IF ps = <<>> THEN <<>>
  ELSE (IF Head(ps).pkg \in can THEN <<Head(ps).pkg>> ELSE <<>>)
         \o PackagesToClean(Tail(ps), can)

\* The state when the task runner calls a task (run), or with no task run.
TaskInit(run) ==
  /\ parcels \in (IF run THEN ParcelLists ELSE {<<>>})
  /\ prebuildable \in (IF run THEN SUBSET Packages ELSE {{}})
  /\ taskPc = (IF run THEN "start" ELSE "idle")
  /\ logCalls = <<>> /\ cleanCalls = <<>> /\ pbIdx = 0 /\ inFlight = {}
  /\ started = <<>> /\ completed = <<>> /\ failedPkg = NoPackage

prebuildVars == <<pbIdx, inFlight, started, completed, failedPkg>>

\* cleanPrebuilds, lines 15-21: up to the await, or to the end when there is
\* nothing to clean.
CleanRun ==
  /\ taskPc = "start"
  /\ LET packagesToClean == PackagesToClean(parcels, prebuildable)
     IN IF Len(packagesToClean) # 0
          THEN /\ logCalls' = logCalls \o <<LogCall, InfoCleaning>>
               /\ cleanCalls' = Append(cleanCalls, packagesToClean)
               /\ taskPc' = "awaiting"
          ELSE /\ logCalls' = Append(logCalls, LogCall)
               /\ cleanCalls' = cleanCalls
               /\ taskPc' = "done"
  /\ UNCHANGED <<parcels, prebuildable, prebuildVars>>

\* cleanFrameworksAsync fulfils: the task ends.
CleanFulfils ==
  /\ taskPc = "awaiting"
  /\ taskPc' = "done"
  /\ UNCHANGED <<parcels, prebuildable, logCalls, cleanCalls, prebuildVars>>

\* cleanFrameworksAsync rejects: the task throws.
CleanRejects ==
  /\ taskPc = "awaiting"
  /\ taskPc' = "failed"
  /\ UNCHANGED <<parcels, prebuildable, logCalls, cleanCalls, prebuildVars>>

\* The first index from i on whose package passes canPrebuildPackage (the
\* `continue` of lines 22-24 skips the others); 0 when the loop runs out.
NextPrebuildable_NoPredicate(ps, can, i) == IF i <= Len(ps) THEN i ELSE 0
NextPrebuildable(ps, can, i) ==
  LET hits == {j \in i..Len(ps) : ps[j].pkg \in can}
  IN IF hits = {} THEN 0 ELSE CHOOSE j \in hits : \A h \in hits : j <= h

\* The for-of loop of lines 21-27 run from index i to its next await, or to
\* the end of the task.
PrebuildLoopFrom(i, log) ==
  LET j == NextPrebuildable(parcels, prebuildable, i)
  IN IF j = 0
       THEN /\ taskPc' = "done"
            /\ logCalls' = log
            /\ UNCHANGED <<pbIdx, inFlight, started>>
       ELSE /\ logCalls' = Append(log, InfoPrebuilding(parcels[j].pkg))
            /\ inFlight' = inFlight \cup {parcels[j].pkg}
            /\ started' = Append(started, parcels[j].pkg)
            /\ pbIdx' = j
            /\ taskPc' = "awaiting"

\* prebuildPackages, line 19 and the loop up to its first await
PrebuildRun ==
  /\ taskPc = "start"
  /\ PrebuildLoopFrom(1, Append(logCalls, LogCall))
  /\ UNCHANGED <<parcels, prebuildable, cleanCalls, completed, failedPkg>>

\* prebuildPackageAsync fulfils
PrebuildFulfils ==
  /\ taskPc = "awaiting"
  /\ \E pkg \in inFlight :
       /\ inFlight' = inFlight \ {pkg}
       /\ completed' = Append(completed, pkg)
  /\ taskPc' = "fulfilled"
  /\ UNCHANGED <<parcels, prebuildable, logCalls, cleanCalls, pbIdx, started, failedPkg>>

\* prebuildPackageAsync rejects
PrebuildRejects ==
  /\ taskPc = "awaiting"
  /\ \E pkg \in inFlight :
       /\ inFlight' = inFlight \ {pkg}
       /\ failedPkg' = pkg
  /\ taskPc' = "rejected"
  /\ UNCHANGED <<parcels, prebuildable, logCalls, cleanCalls, pbIdx, started, completed>>

\* The await of line 26 returned: the loop goes on with the next parcel.
PrebuildResume ==
  /\ taskPc = "fulfilled"
  /\ PrebuildLoopFrom(pbIdx + 1, logCalls)
  /\ UNCHANGED <<parcels, prebuildable, cleanCalls, completed, failedPkg>>

\* The await of line 26 threw: nothing catches it, the task throws.
PrebuildThrows ==
  /\ taskPc = "rejected"
  /\ taskPc' = "failed"
  /\ UNCHANGED <<parcels, prebuildable, logCalls, cleanCalls, prebuildVars>>

-----------------------------------------------------------------------------
(* Specification of mergeXcodeConfigs *)

MergeNext ==
  \/ MergeLoop /\ UNCHANGED <<bundleVars, createVars, genVars, taskVars>>
  \/ MergeReturn /\ UNCHANGED <<bundleVars, createVars, genVars, taskVars>>

SpecMerge ==
  MergeInit(TRUE) /\ BundleInit(FALSE) /\ CreateInit(FALSE) /\ GenInit(FALSE) /\ TaskInit(FALSE)
    /\ [][MergeNext]_vars

\* C1: merging {A: "$(inherited) x"} then {A: "y"} yields
\* {A: "$(inherited) x y"}, and whenever the first of two values merged for a
\* key contains $(inherited), the merged value contains the token exactly once.
C1_InheritedMergeCollapses ==
  /\ (mergePc = 0 /\ configs = <<[A |-> Str(S_inh_x)], [A |-> Str(S_y)]>>)
        => result = [A |-> Str(S_inh_x_y)]
  /\ (mergePc = 0 /\ Len(configs) = 2)
        => \A k \in DOMAIN configs[1] \cap DOMAIN configs[2] :
             (configs[1][k].type = "string" /\ Includes(configs[1][k].val, INHERITED))
                => CountOccurrences(result[k].val, INHERITED) = 1

\* The accumulated value is absent or does not contain $(inherited).
PlainPrev(v) == ~(v.type = "string" /\ Includes(v.val, INHERITED))

C2_KeysAreUnion ==
  mergePc = 0 => DOMAIN result = UNION {DOMAIN configs[i] : i \in 1..Len(configs)}

C2_PlainStep ==
  (mergePc >= 1 /\ mergePc' = mergePc + 1) =>
     /\ DOMAIN result' = DOMAIN result \cup DOMAIN configs[mergePc]
     /\ \A k \in DOMAIN configs[mergePc] :
          PlainPrev(Get(result, k)) => result'[k] = configs[mergePc][k]
     /\ \A k \in DOMAIN result \ DOMAIN configs[mergePc] : result'[k] = result[k]

\* C2: the result's key set is the union of the keys of all maps, and a loop
\* iteration whose config defines key k, when the value accumulated for k so
\* far is absent or does not contain $(inherited), leaves exactly the
\* config's value under k (also when that value contains $(inherited));
\* keys the config does not define keep their value.
C2_LaterMapReplaces == []C2_KeysAreUnion /\ [][C2_PlainStep]_vars

\* A later map replaced a plain value by one that itself contains $(inherited).
C2_Witness ==
  /\ mergePc = 0
  /\ configs = <<[A |-> Str(S_x), B |-> Str(S_y)], [A |-> Str(S_inh_x)]>>
  /\ result = [A |-> Str(S_inh_x), B |-> Str(S_y)]

-----------------------------------------------------------------------------
(* Specification of podNameToBundleId *)

BundleNext ==
  \/ BundleReplaceUM /\ UNCHANGED <<mergeVars, createVars, genVars, taskVars>>
  \/ BundleReplaceEX /\ UNCHANGED <<mergeVars, createVars, genVars, taskVars>>
  \/ BundleReplaceSeparators /\ UNCHANGED <<mergeVars, createVars, genVars, taskVars>>
  \/ BundleReplaceUppercase /\ UNCHANGED <<mergeVars, createVars, genVars, taskVars>>

SpecBundleId ==
  MergeInit(FALSE) /\ BundleInit(TRUE) /\ CreateInit(FALSE) /\ GenInit(FALSE) /\ TaskInit(FALSE)
    /\ [][BundleNext]_vars

BundleReturned == bundleStage = 4

NoUppercase(s) == \A i \in DOMAIN s : ~IsUpper(s[i])
NoUnderscore(s) == \A i \in DOMAIN s : s[i] # "_"
NoConsecutiveDots(s) == \A i \in 1..(Len(s) - 1) : ~(s[i] = "." /\ s[i + 1] = ".")
HasDot(s) == \E i \in DOMAIN s : s[i] = "."

BundleExamples ==
  /\ podName = S_EXFoo => bundleStr = S_expo_foo
  /\ podName = S_UMBar_Baz => bundleStr = S_unimodules_bar_baz

\* C8 as stated: "EXFoo" gives "expo.foo", "UMBar_Baz" gives
\* "unimodules.bar.baz", and for every pod name the result contains no
\* uppercase letter, no underscore and no two consecutive dots.
C8_Original ==
  BundleReturned =>
    /\ BundleExamples
    /\ NoUppercase(bundleStr)
    /\ NoUnderscore(bundleStr)
    /\ NoConsecutiveDots(bundleStr)

\* C8 amended: the examples hold, the result of every pod name contains no
\* uppercase letter and no underscore, a leading EX/UM has become expo/
\* unimodules, and the result has no two consecutive dots when the pod name
\* itself contains no dot.
C8_BundleIdShape ==
  BundleReturned =>
    /\ BundleExamples
    /\ NoUppercase(bundleStr)
    /\ NoUnderscore(bundleStr)
    /\ (StartsWith(podName, <<"E", "X">>) => StartsWith(bundleStr, S_expo))
    /\ (StartsWith(podName, <<"U", "M">>) => StartsWith(bundleStr, S_unimodules))
    /\ (~HasDot(podName) => NoConsecutiveDots(bundleStr))

\* A name with a prefix, a separator run and an uppercase run was converted.
C8_Witness ==
  /\ BundleReturned
  /\ podName = S_UMBar_Baz
  /\ bundleStr = S_unimodules_bar_baz

-----------------------------------------------------------------------------
(* Specification of createSpecFromPodspecAsync *)

CreateNext ==
  \/ CreateStart /\ UNCHANGED <<mergeVars, bundleVars, genVars, taskVars>>
  \/ ResolverFulfils /\ UNCHANGED <<mergeVars, bundleVars, genVars, taskVars>>
  \/ ResolverRejects /\ UNCHANGED <<mergeVars, bundleVars, genVars, taskVars>>
  \/ CreateReturn /\ UNCHANGED <<mergeVars, bundleVars, genVars, taskVars>>

SpecCreate ==
  MergeInit(FALSE) /\ BundleInit(FALSE) /\ CreateInit(TRUE) /\ GenInit(FALSE) /\ TaskInit(FALSE)
    /\ [][CreateNext]_vars

\* The declared names, in declaration order, that the resolver answered with
\* a descriptor.
RECURSIVE AnsweredInOrder(_)
AnsweredInOrder(names) ==
  IF names = <<>> THEN <<>>
  ELSE (IF resolved[Head(names)].kind # "null" THEN <<resolved[Head(names)]>> ELSE <<>>)
         \o AnsweredInOrder(Tail(names))

DeclaredNames ==
  IF podspec.dependencies.type = "object" THEN podspec.dependencies.val ELSE <<>>

EntriesFor(list, name) == {i \in DOMAIN list : list[i].name = name /\ list[i].kind # "sdk"}

\* C3: the resolver is called once for every declared name, all calls are
\* made before any of them completes, and in whatever order they complete the
\* resolved list has exactly one entry for every name answered with a
\* descriptor, none for a name answered with nothing, in declaration order.
C3_ResolvedDependencies ==
  /\ csPc # "start" =>
       \A i \in DOMAIN DeclaredNames :
         Cardinality({c \in DOMAIN resolverCalls : resolverCalls[c] = DeclaredNames[i]}) = 1
  /\ csPc # "start" => Len(resolverCalls) = Len(DeclaredNames)
  /\ csPc = "returned" =>
       /\ dependencies = AnsweredInOrder(DeclaredNames)
       /\ \A i \in DOMAIN DeclaredNames :
            Cardinality(EntriesFor(dependencies, DeclaredNames[i])) =
              (IF resolved[DeclaredNames[i]].kind = "null" THEN 0 ELSE 1)

\* Two calls completed in the reverse of declaration order, one answered with
\* nothing and one with a descriptor.
C3_Witness ==
  /\ csPc = "returned"
  /\ DeclaredNames = <<"Z", "Y">>
  /\ completionOrder = <<2, 1>>
  /\ resolved["Z"].kind = "null"
  /\ dependencies = <<[kind |-> "framework", name |-> "Y"]>>

\* The SDK entries the manifest's `frameworks` stands for.
DeclaredSdkEntries ==
  CASE podspec.frameworks.type = "array" ->
         [i \in DOMAIN podspec.frameworks.val |->
            [kind |-> "sdk", name |-> podspec.frameworks.val[i].val \o S_dot_framework]]
    [] podspec.frameworks.type = "string" ->
         <<[kind |-> "sdk", name |-> podspec.frameworks.val \o S_dot_framework]>>
    [] OTHER -> <<>>

\* C9: the target's dependency list is one SDK entry per declared framework
\* (a single string counting as a one-element list, an absent value as
\* empty), in declared order, followed by the resolved dependencies in
\* declaration order.
C9_TargetDependencies ==
  csPc = "returned" =>
    /\ targetDependencies = DeclaredSdkEntries \o AnsweredInOrder(DeclaredNames)
    /\ \A i, j \in DOMAIN targetDependencies :
         (targetDependencies[i].kind = "sdk" /\ targetDependencies[j].kind # "sdk") => i < j

\* A single-string `frameworks` and a resolved dependency.
C9_Witness ==
  /\ csPc = "returned"
  /\ podspec.frameworks = Str(S_CoreLocation)
  /\ targetDependencies =
       <<[kind |-> "sdk", name |-> S_CoreLocation \o S_dot_framework],
         [kind |-> "target", name |-> "Y"]>>

DeclaredXcconfig ==
  IF podspec.pod_target_xcconfig.type = "object"
    THEN podspec.pod_target_xcconfig.val ELSE EmptyObject

OtherKeysCarried ==
  /\ DOMAIN targetSettings = DOMAIN DeclaredXcconfig \cup {S_MACH_O_TYPE}
  /\ \A k \in DOMAIN DeclaredXcconfig \ {S_MACH_O_TYPE} :
       targetSettings[k] = DeclaredXcconfig[k]

EndsWith(s, t) == Len(s) >= Len(t) /\ SubSeq(s, Len(s) - Len(t) + 1, Len(s)) = t

\* C10 as stated: whatever the manifest's overrides contain, MACH_O_TYPE is
\* exactly `staticlib` and every other key is carried over unchanged.
C10_Original ==
  csPc = "returned" =>
    /\ targetSettings[S_MACH_O_TYPE] = Str(S_staticlib)
    /\ OtherKeysCarried

\* C10 amended: MACH_O_TYPE is exactly `staticlib` when the manifest's
\* overrides have no MACH_O_TYPE or one without $(inherited); when the
\* manifest's MACH_O_TYPE contains $(inherited) the value is the merge of 4.2,
\* which starts with `$(inherited) ` and ends with ` staticlib`. Every other
\* key is carried over unchanged.
C10_StaticlibOverride ==
  csPc = "returned" =>
    /\ PlainPrev(Get(DeclaredXcconfig, S_MACH_O_TYPE))
         => targetSettings[S_MACH_O_TYPE] = Str(S_staticlib)
    /\ ~PlainPrev(Get(DeclaredXcconfig, S_MACH_O_TYPE))
         => /\ targetSettings[S_MACH_O_TYPE].type = "string"
            /\ StartsWith(targetSettings[S_MACH_O_TYPE].val, INHERITED \o <<" ">>)
            /\ EndsWith(targetSettings[S_MACH_O_TYPE].val, <<" ">> \o S_staticlib)
    /\ OtherKeysCarried

\* The manifest declared a plain MACH_O_TYPE and it was replaced.
C10_Witness ==
  /\ csPc = "returned"
  /\ podspec.pod_target_xcconfig = Obj([k \in {S_MACH_O_TYPE} |-> Str(S_dylib)])
  /\ targetSettings = [k \in {S_MACH_O_TYPE} |-> Str(S_staticlib)]

-----------------------------------------------------------------------------
(* Specification of generateXcodeProjectAsync *)

GenNext ==
  \/ GenWriteSpec /\ UNCHANGED <<mergeVars, bundleVars, createVars, taskVars>>
  \/ GenWriteCompletes /\ UNCHANGED <<mergeVars, bundleVars, createVars, taskVars>>
  \/ GenWriteFails /\ UNCHANGED <<mergeVars, bundleVars, createVars, taskVars>>
  \/ GenSpawn /\ UNCHANGED <<mergeVars, bundleVars, createVars, taskVars>>
  \/ GenProcessExits /\ UNCHANGED <<mergeVars, bundleVars, createVars, taskVars>>
  \/ GenSpawnResolved /\ UNCHANGED <<mergeVars, bundleVars, createVars, taskVars>>
  \/ GenSpawnRejected /\ UNCHANGED <<mergeVars, bundleVars, createVars, taskVars>>
  \/ GenRemoveCompletes /\ UNCHANGED <<mergeVars, bundleVars, createVars, taskVars>>
  \/ GenRemoveFails /\ UNCHANGED <<mergeVars, bundleVars, createVars, taskVars>>
  \/ GenReturn /\ UNCHANGED <<mergeVars, bundleVars, createVars, taskVars>>

SpecGenerate ==
  MergeInit(FALSE) /\ BundleInit(FALSE) /\ CreateInit(FALSE) /\ GenInit(TRUE) /\ TaskInit(FALSE)
    /\ [][GenNext]_vars

SpecFile == fs[SpecPath(genDir, genSpecName)]

\* C4: the spec file is fully written while the generator runs, it is removed
\* only for a subprocess that has exited, and when the function has returned
\* `<dir>/<name>.xcodeproj` the spec file no longer exists; the path is
\* returned whether or not the project exists.
C4_SuccessPathOrder ==
  /\ genProc = "running" => SpecFile = "complete"
  /\ genPc \in {"spawned", "exited", "removing"} => SpecFile = "complete"
  /\ genPc \in {"removing", "removed", "returned"} =>
       genProc = "exited" /\ genExitCode = 0
  /\ genPc = "removed" => SpecFile = "absent"
  /\ genPc = "returned" =>
       /\ SpecFile = "absent"
       /\ genReturn = [dir |-> genDir, base |-> genSpecName, ext |-> ".xcodeproj"]
  /\ genPc # "returned" => genReturn = NoPath

\* The function returned the project's path although no project exists.
C4_Witness ==
  /\ genPc = "returned"
  /\ genReturn = [dir |-> genDir, base |-> genSpecName, ext |-> ".xcodeproj"]
  /\ fs[genReturn] = "absent"
  /\ SpecFile = "absent"

\* C5: when the subprocess exits non-zero the function throws, returns no
\* path and leaves the spec file on disk.
C5_FailureLeavesSpecFile ==
  /\ (genProc = "exited" /\ genExitCode # 0 /\ genPc # "exited") =>
       /\ genPc = "failed" /\ genError = "spawn"
       /\ genReturn = NoPath
       /\ SpecFile = "complete"
  /\ (genPc = "failed" /\ genError = "spawn") => genExitCode \notin {0, NoExitCode}

C5_Witness ==
  /\ genPc = "failed" /\ genError = "spawn"
  /\ genExitCode = 2
  /\ SpecFile = "complete"
  /\ genReturn = NoPath

-----------------------------------------------------------------------------
(* Specifications of the tasks *)

CleanNext ==
  \/ CleanRun /\ UNCHANGED <<mergeVars, bundleVars, createVars, genVars>>
  \/ CleanFulfils /\ UNCHANGED <<mergeVars, bundleVars, createVars, genVars>>
  \/ CleanRejects /\ UNCHANGED <<mergeVars, bundleVars, createVars, genVars>>

SpecClean ==
  MergeInit(FALSE) /\ BundleInit(FALSE) /\ CreateInit(FALSE) /\ GenInit(FALSE) /\ TaskInit(TRUE)
    /\ [][CleanNext]_vars

PrebuildNext ==
  \/ PrebuildRun /\ UNCHANGED <<mergeVars, bundleVars, createVars, genVars>>
  \/ PrebuildFulfils /\ UNCHANGED <<mergeVars, bundleVars, createVars, genVars>>
  \/ PrebuildRejects /\ UNCHANGED <<mergeVars, bundleVars, createVars, genVars>>
  \/ PrebuildResume /\ UNCHANGED <<mergeVars, bundleVars, createVars, genVars>>
  \/ PrebuildThrows /\ UNCHANGED <<mergeVars, bundleVars, createVars, genVars>>

SpecPrebuild ==
  MergeInit(FALSE) /\ BundleInit(FALSE) /\ CreateInit(FALSE) /\ GenInit(FALSE) /\ TaskInit(TRUE)
    /\ [][PrebuildNext]_vars

\* The packages of the parcels that pass the predicate, in parcel order.
PrebuildableInOrder ==
  LET idx == {i \in DOMAIN parcels : parcels[i].pkg \in prebuildable}
      Rank(i) == Cardinality({j \in idx : j <= i})
  IN [r \in 1..Cardinality(idx) |-> parcels[CHOOSE i \in idx : Rank(i) = r].pkg]

\* C6 as stated: cleanFrameworksAsync is invoked exactly once, with the
\* prebuildable packages in parcel order, when there is one; when there is
\* none the task invokes no clean operation and logs nothing.
C6_Original ==
  taskPc # "start" =>
    IF PrebuildableInOrder # <<>>
      THEN cleanCalls = <<PrebuildableInOrder>>
      ELSE cleanCalls = <<>> /\ logCalls = <<>>

\* C6 amended: as stated, but when no package is prebuildable the task still
\* makes its unconditional argument-less logger.log() call; it logs no
\* message (no logger.info) and invokes no clean operation.
C6_CleanOnceOrNever ==
  /\ taskPc = "start" => cleanCalls = <<>> /\ logCalls = <<>>
  /\ taskPc # "start" =>
       IF PrebuildableInOrder # <<>>
         THEN cleanCalls = <<PrebuildableInOrder>>
         ELSE /\ cleanCalls = <<>>
              /\ logCalls = <<[method |-> "log", args |-> <<>>]>>
              /\ taskPc = "done"

\* The first and the third of three packages were cleaned as one batch, the
\* second one failing the predicate.
C6_Witness ==
  /\ taskPc = "done"
  /\ Len(parcels) = 3
  /\ parcels[2].pkg \notin prebuildable
  /\ cleanCalls = <<<<parcels[1].pkg, parcels[3].pkg>>>>

IsPrefix(p, q) == Len(p) <= Len(q) /\ SubSeq(q, 1, Len(p)) = p

====
